---- MODULE Spec2Model ----
(***************************************************************************)
(* Model of cryptoplus::x509::store_context                                *)
(* (include/cryptoplus/x509/store_context.hpp).                            *)
(*                                                                         *)
(* A store_context is a pointer_wrapper<X509_STORE_CTX>: a raw handle plus *)
(* a deleter, shared between the copies of one instance.  The model keeps  *)
(* every wrapper instance ever built (wr), the native contexts they point  *)
(* to (alloc, ctx), the number of times a wrapper's deleter ran on each    *)
(* handle (deleterRuns) and the outcome of the last operation (last).      *)
(***************************************************************************)
EXTENDS Integers, Sequences, FiniteSets, TLC

\* ---- bounds -------------------------------------------------------------
NumHandles == 2
MaxWrappers == 2

\* ---- values -------------------------------------------------------------
Null == 0
Handles == 1..NumHandles
Pointers == {Null} \cup Handles

\* Arguments of initialize(): a store the native layer accepts, a store the
\* native layer rejects.
ValidStore == 1
RejectedStore == 2
Stores == {ValidStore, RejectedStore}

NoError == "none"
Crash == "crash"
NoRet == -1

VARIABLES wr, alloc, ctx, deleterRuns, recycled, crashed, last
vars == <<wr, alloc, ctx, deleterRuns, recycled, crashed, last>>

Slots == DOMAIN wr
Live == {i \in Slots : wr[i].st = "live"}

EmptyCtx == [init |-> FALSE]

Outcome(op, w, arg, ret, err, ok) ==
    [op |-> op, w |-> w, arg |-> arg, ret |-> ret, err |-> err, ok |-> ok,
     eq |-> FALSE, neq |-> FALSE]

\* The handle designates a native context that has been allocated and not
\* released: the only handles the native functions are defined on.
Valid(p) == p # Null /\ alloc[p] = "live"

\* ---- error/cryptographic_exception.hpp, pointer_wrapper.hpp --------------
Exception == "cryptographic_exception"

throw_error_if_not(condition) == IF condition THEN NoError ELSE Exception

pointer_wrapper(_pointer, _deleter) == [ptr |-> _pointer, del |-> _deleter]

pointer_wrapper_default == [ptr |-> Null, del |-> "null_deleter"]

raw(w) == w.ptr

\* A new instance: its own shared state (cb), not shared with any other.
Instance(w, made) ==
    [st |-> "live", ptr |-> w.ptr, del |-> w.del, cb |-> Len(wr) + 1,
     made |-> made]

\* How an owning instance was made (copies keep the mark of their source).
OwningMade == {"create", "take_ownership"}

\* What is kept of an instance once it is destroyed: of an instance that held
\* the real deleter, the handle and the shared state; of any other, nothing.
Destroyed(w, i) ==
    IF w.del = "deleter" \/ w.made \in OwningMade
    THEN [w EXCEPT !.st = "destroyed"]
    ELSE [st |-> "destroyed", ptr |-> Null, del |-> "none", cb |-> i,
          made |-> "default"]

\* ---- the native library --------------------------------------------------
X509_STORE_CTX_init(_store) == IF _store = RejectedStore THEN 0 ELSE 1

FreshHandle == CHOOSE h \in Handles :
    alloc[h] = "unalloc" /\ \A g \in Handles : alloc[g] = "unalloc" => h <= g

X509_STORE_CTX_new ==
    {Null} \cup (IF \E h \in Handles : alloc[h] = "unalloc"
                 THEN {FreshHandle} ELSE {})

Init ==
    /\ wr = <<>>
    /\ alloc = [h \in Handles |-> "unalloc"]
    /\ ctx = [h \in Handles |-> EmptyCtx]
    /\ deleterRuns = [p \in Pointers |-> 0]
    /\ recycled = [h \in Handles |-> FALSE]
    /\ crashed = FALSE
    /\ last = Outcome("none", 0, 0, NoRet, NoError, FALSE)

\* Pointers a caller can pass: null, a context allocated at some point, or
\* one it allocates for the call (X509_STORE_CTX_new succeeded).
Known == X509_STORE_CTX_new \cup {h \in Handles : alloc[h] # "unalloc"}

\* The contexts once the caller passes _ptr.
Passed(_ptr) ==
    IF _ptr # Null /\ alloc[_ptr] = "unalloc"
    THEN [alloc EXCEPT ![_ptr] = "live"]
    ELSE alloc

\* ---- ownership bookkeeping (derived from wr) -------------------------------
\* The instances (live or destroyed) made owning on handle h, and the number
\* of times h was taken into owning mode (copies share their source's cb).
OwnersOf(h) == {i \in Slots : wr[i].made \in OwningMade /\ wr[i].ptr = h}
OwnCount(h) == Cardinality({wr[i].cb : i \in OwnersOf(h)})
LiveOwnersOf(h) == OwnersOf(h) \cap Live
\* The owning shared states on h all of whose instances are destroyed.
ReleasedOwners(h) ==
    {c \in {wr[i].cb : i \in OwnersOf(h)} :
        \A j \in OwnersOf(h) : wr[j].cb = c => wr[j].st = "destroyed"}

\* ---- store_context: construction -----------------------------------------
store_context_ptr_del(_ptr, _del) == pointer_wrapper(_ptr, _del)

\* Mutations of take_ownership(): no null check; one owner per handle only.
take_ownership_check_missing(_ptr) == NoError

take_ownership_check_single(_ptr) ==
    throw_error_if_not(_ptr # Null /\ LiveOwnersOf(_ptr) = {})

take_ownership_check(_ptr) == throw_error_if_not(_ptr # Null)

\* Mutation: the owning wrapper is given the no-op deleter.
take_ownership_deleter_null == "null_deleter"

take_ownership_deleter == "deleter"

\* Body of take_ownership(); op is the public operation it runs for.
take_ownership(_ptr, op) ==
    LET err == take_ownership_check(_ptr) IN
    IF err # NoError
    THEN /\ last' = Outcome(op, 0, _ptr, NoRet, err, FALSE)
         /\ UNCHANGED wr
    ELSE /\ wr' = Append(wr, Instance(
                      store_context_ptr_del(_ptr, take_ownership_deleter), op))
         /\ last' = Outcome(op, Len(wr) + 1, _ptr, NoRet, NoError, FALSE)

create ==
    /\ ~crashed
    /\ Len(wr) < MaxWrappers
    /\ \E _ptr \in X509_STORE_CTX_new :
         /\ alloc' = IF _ptr # Null THEN [alloc EXCEPT ![_ptr] = "live"]
                     ELSE alloc
         /\ LET err == throw_error_if_not(_ptr # Null) IN
            IF err # NoError
            THEN /\ last' = Outcome("create", 0, _ptr, NoRet, err, FALSE)
                 /\ UNCHANGED wr
            ELSE take_ownership(_ptr, "create")
    /\ UNCHANGED <<ctx, deleterRuns, recycled, crashed>>

TakeOwnership ==
    /\ ~crashed
    /\ Len(wr) < MaxWrappers
    /\ \E _ptr \in Known :
         /\ alloc' = Passed(_ptr)
         /\ take_ownership(_ptr, "take_ownership")
    /\ UNCHANGED <<ctx, deleterRuns, recycled, crashed>>

\* Mutation: the default constructor leaves a stale handle in the wrapper.
store_context_default_stale == pointer_wrapper(1, "null_deleter")

store_context_default == pointer_wrapper_default

DefaultCtor ==
    /\ ~crashed
    /\ Len(wr) < MaxWrappers
    /\ wr' = Append(wr, Instance(store_context_default, "default"))
    /\ last' = Outcome("default_ctor", Len(wr) + 1, Null, NoRet, NoError, FALSE)
    /\ UNCHANGED <<alloc, ctx, deleterRuns, recycled, crashed>>

\* Mutation: the borrowing constructor stores the real deleter.
store_context_ptr_owning(_ptr) == pointer_wrapper(_ptr, "deleter")

store_context_ptr(_ptr) == pointer_wrapper(_ptr, "null_deleter")

\* Mutation: the borrowing constructor validates its argument as
\* take_ownership() does.
BorrowCtor_validating(_ptr) ==
    /\ ~crashed
    /\ Len(wr) < MaxWrappers
    /\ IF throw_error_if_not(_ptr # Null) # NoError
       THEN /\ last' = Outcome("borrow_ctor", 0, _ptr, NoRet, Exception, FALSE)
            /\ UNCHANGED wr
       ELSE /\ wr' = Append(wr, Instance(store_context_ptr(_ptr), "borrowing"))
            /\ last' = Outcome("borrow_ctor", Len(wr) + 1, _ptr, NoRet,
                               NoError, FALSE)
    /\ alloc' = Passed(_ptr)
    /\ UNCHANGED <<ctx, deleterRuns, recycled, crashed>>

BorrowCtor(_ptr) ==
    /\ ~crashed
    /\ Len(wr) < MaxWrappers
    /\ wr' = Append(wr, Instance(store_context_ptr(_ptr), "borrowing"))
    /\ last' = Outcome("borrow_ctor", Len(wr) + 1, _ptr, NoRet, NoError, FALSE)
    /\ alloc' = Passed(_ptr)
    /\ UNCHANGED <<ctx, deleterRuns, recycled, crashed>>

\* ---- pointer_wrapper: copy, destruction, raw() ----------------------------
\* A copy shares the handle, the deleter and the shared state of its source.
Copy(i) ==
    /\ ~crashed
    /\ Len(wr) < MaxWrappers
    /\ i \in Live
    /\ wr' = Append(wr, wr[i])
    /\ last' = Outcome("copy", Len(wr) + 1, i, NoRet, NoError, FALSE)
    /\ UNCHANGED <<alloc, ctx, deleterRuns, recycled, crashed>>

\* The last instance of a shared state runs the stored deleter on the handle.
\* deleter is X509_STORE_CTX_free: releasing a context that is already
\* released is undefined (the process may or may not crash).
Destroy(i) ==
    /\ ~crashed
    /\ i \in Live
    /\ wr' = [wr EXCEPT ![i] = Destroyed(wr[i], i)]
    /\ LET p == wr[i].ptr
           release == /\ wr[i].del = "deleter"
                      /\ \A j \in Live \ {i} : wr[j].cb # wr[i].cb
       IN  IF ~release
           THEN /\ last' = Outcome("destroy", i, p, NoRet, NoError, FALSE)
                /\ UNCHANGED <<alloc, ctx, deleterRuns, recycled, crashed>>
           ELSE /\ deleterRuns' = [deleterRuns EXCEPT ![p] = @ + 1]
                /\ IF p = Null
                   THEN /\ last' = Outcome("destroy", i, p, NoRet, NoError, TRUE)
                        /\ UNCHANGED <<alloc, ctx, recycled, crashed>>
                   ELSE IF alloc[p] = "live"
                   THEN /\ alloc' = [alloc EXCEPT ![p] = "freed"]
                        /\ ctx' = [ctx EXCEPT ![p] = EmptyCtx]
                        /\ recycled' = [recycled EXCEPT ![p] = FALSE]
                        /\ last' = Outcome("destroy", i, p, NoRet, NoError, TRUE)
                        /\ UNCHANGED crashed
                   ELSE \E c \in BOOLEAN :
                        /\ crashed' = c
                        /\ last' = Outcome("destroy", i, p, NoRet,
                                           IF c THEN Crash ELSE NoError, TRUE)
                        /\ UNCHANGED <<alloc, ctx, recycled>>

RawAccess(i) ==
    /\ ~crashed
    /\ i \in Live
    /\ last' = Outcome("raw", i, raw(wr[i]), NoRet, NoError, FALSE)
    /\ UNCHANGED <<wr, alloc, ctx, deleterRuns, recycled, crashed>>

\* ---- store_context: domain operations -------------------------------------
\* Mutation: the status of X509_STORE_CTX_init is ignored.
initialize_check_ignored(ret) == NoError

initialize_check(ret) == throw_error_if_not(ret # 0)

\* Calling a native function on a null or released handle is undefined: it
\* may crash, and a returned status is arbitrary.  A failed
\* X509_STORE_CTX_init may or may not reset the context.

initialize(i, _store) ==
    LET p == raw(wr[i]) IN
    /\ ~crashed
    /\ i \in Live
    /\ IF Valid(p)
       THEN LET ret == X509_STORE_CTX_init(_store) IN
            /\ IF ret # 0
               THEN ctx' = [ctx EXCEPT ![p] = [init |-> TRUE]]
               ELSE \E c \in {EmptyCtx, ctx[p]} :
                        ctx' = [ctx EXCEPT ![p] = c]
            /\ last' = Outcome("initialize", i, _store, ret,
                               initialize_check(ret), TRUE)
            /\ UNCHANGED crashed
       ELSE \E ret \in {0, 1}, c \in BOOLEAN :
            /\ crashed' = c
            /\ last' = IF c
                       THEN Outcome("initialize", i, _store, NoRet, Crash, FALSE)
                       ELSE Outcome("initialize", i, _store, ret,
                                    initialize_check(ret), FALSE)
            /\ UNCHANGED ctx
    /\ UNCHANGED <<wr, alloc, deleterRuns, recycled>>

\* Mutation: set_trusted_certificates() reports a trusted set that was not
\* installed.
set_trusted_certificates_checked(i) ==
    LET p == raw(wr[i]) IN
    /\ ~crashed
    /\ i \in Live
    /\ IF Valid(p)
       THEN \E installed \in BOOLEAN :
            /\ UNCHANGED ctx
            /\ last' = Outcome("set_trusted_certificates", i,
                               IF installed THEN 1 ELSE 0, NoRet,
                               throw_error_if_not(installed), TRUE)
            /\ UNCHANGED crashed
       ELSE \E c \in BOOLEAN :
            /\ crashed' = c
            /\ last' = Outcome("set_trusted_certificates", i, 0, NoRet,
                               IF c THEN Crash ELSE NoError, FALSE)
            /\ UNCHANGED ctx
    /\ UNCHANGED <<wr, alloc, deleterRuns, recycled>>

\* X509_STORE_CTX_trusted_stack returns nothing: whether the trusted set was
\* installed (installed) is not reported to the wrapper, and the wrapper keeps
\* no trace of it.
set_trusted_certificates(i) ==
    LET p == raw(wr[i]) IN
    /\ ~crashed
    /\ i \in Live
    /\ IF Valid(p)
       THEN \E installed \in BOOLEAN :
            /\ UNCHANGED ctx
            /\ last' = Outcome("set_trusted_certificates", i,
                               IF installed THEN 1 ELSE 0, NoRet, NoError, TRUE)
            /\ UNCHANGED crashed
       ELSE \E c \in BOOLEAN :
            /\ crashed' = c
            /\ last' = Outcome("set_trusted_certificates", i, 0, NoRet,
                               IF c THEN Crash ELSE NoError, FALSE)
            /\ UNCHANGED ctx
    /\ UNCHANGED <<wr, alloc, deleterRuns, recycled>>

\* Mutation: cleanup() releases the context (X509_STORE_CTX_free) instead of
\* resetting it.
cleanup_frees(i) ==
    LET p == raw(wr[i]) IN
    /\ ~crashed
    /\ i \in Live
    /\ IF Valid(p)
       THEN /\ ctx' = [ctx EXCEPT ![p] = EmptyCtx]
            /\ alloc' = [alloc EXCEPT ![p] = "freed"]
            /\ recycled' = [recycled EXCEPT ![p] = @ \/ ctx[p].init]
            /\ last' = Outcome("cleanup", i, 0, NoRet, NoError, TRUE)
            /\ UNCHANGED crashed
       ELSE \E c \in BOOLEAN :
            /\ crashed' = c
            /\ last' = Outcome("cleanup", i, 0, NoRet,
                               IF c THEN Crash ELSE NoError, FALSE)
            /\ UNCHANGED <<ctx, recycled, alloc>>
    /\ UNCHANGED <<wr, deleterRuns>>

cleanup(i) ==
    LET p == raw(wr[i]) IN
    /\ ~crashed
    /\ i \in Live
    /\ IF Valid(p)
       THEN /\ ctx' = [ctx EXCEPT ![p] = EmptyCtx]
            /\ recycled' = [recycled EXCEPT ![p] = @ \/ ctx[p].init]
            /\ last' = Outcome("cleanup", i, 0, NoRet, NoError, TRUE)
            /\ UNCHANGED crashed
       ELSE \E c \in BOOLEAN :
            /\ crashed' = c
            /\ last' = Outcome("cleanup", i, 0, NoRet,
                               IF c THEN Crash ELSE NoError, FALSE)
            /\ UNCHANGED <<ctx, recycled>>
    /\ UNCHANGED <<wr, alloc, deleterRuns>>

\* ---- comparison -----------------------------------------------------------
\* Mutation: equality also requires the two instances to be copies of one
\* another.
operator_eq_copies(lhs, rhs) == raw(lhs) = raw(rhs) /\ lhs.cb = rhs.cb

operator_eq(lhs, rhs) == raw(lhs) = raw(rhs)

operator_neq(lhs, rhs) == raw(lhs) # raw(rhs)

Compare(i, j) ==
    /\ ~crashed
    /\ i \in Live
    /\ j \in Live
    /\ last' = [Outcome("compare", i, j, NoRet, NoError, FALSE)
                  EXCEPT !.eq = operator_eq(wr[i], wr[j]),
                         !.neq = operator_neq(wr[i], wr[j])]
    /\ UNCHANGED <<wr, alloc, ctx, deleterRuns, recycled, crashed>>

Next ==
    \/ create
    \/ TakeOwnership
    \/ DefaultCtor
    \/ \E _ptr \in Known : BorrowCtor(_ptr)
    \/ \E i \in Slots : Copy(i)
    \/ \E i \in Slots : Destroy(i)
    \/ \E i \in Slots : RawAccess(i)
    \/ \E i \in Slots, _store \in Stores : initialize(i, _store)
    \/ \E i \in Slots : set_trusted_certificates(i)
    \/ \E i \in Slots : cleanup(i)
    \/ \E i \in Slots, j \in Slots : Compare(i, j)

Spec == Init /\ [][Next]_vars

\* ---- properties ----------------------------------------------------------

\* C1: create() with a null native allocation and take_ownership(null) raise
\* the exception and produce no wrapper; every wrapper returned by create()
\* or take_ownership() holds a non-null handle and the real deleter.
C1_State ==
    /\ last.op \in OwningMade =>
         IF last.arg = Null
         THEN last.err = Exception /\ last.w = 0
         ELSE /\ last.err = NoError
              /\ last.w = Len(wr)
              /\ wr[last.w].st = "live"
              /\ wr[last.w].ptr = last.arg
              /\ wr[last.w].del = "deleter"
    /\ \A i \in Slots : wr[i].made \in OwningMade =>
         wr[i].ptr # Null /\ wr[i].del = "deleter"
C1_Step ==
    (last'.op \in OwningMade /\ last'.err # NoError) => wr' = wr
C1_OwningConstruction == []C1_State /\ [][C1_Step]_vars
\* create() failed on a null allocation while an owning wrapper exists.
C1_Witness ==
    /\ last.op = "create" /\ last.arg = Null /\ last.err = Exception
    /\ \E i \in Live : wr[i].made = "take_ownership" /\ wr[i].ptr # Null

\* C2: destroying a wrapper built by the borrowing or the default
\* constructor, or a copy of one, never runs the native destroy operation.
C2_Step ==
    \A i \in Slots :
        ( /\ wr[i].st = "live"
          /\ wr'[i].st = "destroyed"
          /\ wr[i].made \in {"default", "borrowing"} )
        => deleterRuns' = deleterRuns /\ alloc' = alloc
C2_BorrowNeverDestroys == [][C2_Step]_vars
\* The last copy of a wrapper borrowing an initialized context was destroyed
\* and the context is still there.
C2_Witness ==
    /\ last.op = "destroy" /\ last.arg # Null /\ ~last.ok
    /\ OwnersOf(last.arg) = {}
    /\ \A i \in Slots : wr[i].st = "destroyed"
    /\ Len(wr) = MaxWrappers
    /\ alloc[last.arg] = "live"
    /\ ctx[last.arg].init
    /\ deleterRuns[last.arg] = 0

C4_State ==
    (last.op = "initialize" /\ wr[last.w].ptr # Null) =>
        /\ last.err = Exception <=> last.ret = 0
        /\ last.ret = 1 => last.err = NoError
C4_Step ==
    (last'.op = "initialize" /\ wr[last'.w].ptr # Null
                             /\ last'.err = Exception) =>
        /\ wr'[last'.w] = wr[last'.w]
        /\ wr'[last'.w].ptr # Null
C4_InitializeError == []C4_State /\ [][C4_Step]_vars
\* initialize() with a rejected store raised on a context made by create().
C4_Witness ==
    /\ last.op = "initialize" /\ last.ok
    /\ last.arg = RejectedStore /\ last.ret = 0 /\ last.err = Exception
    /\ wr[last.w].made = "create" /\ wr[last.w].ptr # Null

\* C5: on a context that is allocated and not released, cleanup() puts the
\* context back in the reusable (not initialized) state, and initialize()
\* with inputs the native layer accepts succeeds, whatever number of
\* initialize()/cleanup() cycles came before.
C5_Reinitialize ==
    LET p == wr[last.w].ptr IN
    /\ (last.op = "initialize" /\ last.ok /\ last.arg # RejectedStore) =>
           last.err = NoError /\ ctx[p].init /\ Valid(p)
    /\ (last.op = "cleanup" /\ last.ok) =>
           last.err = NoError /\ ~ctx[p].init /\ Valid(p)
\* initialize() succeeded on a context that went through initialize() and
\* cleanup() before.
C5_Witness ==
    /\ last.op = "initialize" /\ last.ok /\ last.arg = ValidStore
    /\ last.err = NoError
    /\ recycled[wr[last.w].ptr]
    /\ ctx[wr[last.w].ptr].init

\* C6: a == b holds iff the two wrappers hold the same handle value, whatever
\* their ownership mode, and a != b is the negation of a == b.
C6_Equality ==
    last.op = "compare" =>
        /\ last.eq <=> (wr[last.w].ptr = wr[last.arg].ptr)
        /\ last.neq <=> ~last.eq
        /\ (wr[last.w].made = "borrowing" /\ wr[last.arg].made = "borrowing"
              /\ wr[last.w].ptr = wr[last.arg].ptr) => last.eq
        /\ (wr[last.w].made = "borrowing" /\ wr[last.arg].made \in OwningMade
              /\ wr[last.w].ptr # wr[last.arg].ptr) => last.neq
\* A wrapper borrowing handle A was compared with one owning another handle
\* B and found unequal.
C6_Witness ==
    /\ last.op = "compare"
    /\ wr[last.w].made = "borrowing" /\ wr[last.arg].made \in OwningMade
    /\ wr[last.w].ptr # wr[last.arg].ptr
    /\ wr[last.w].ptr # Null /\ wr[last.arg].ptr # Null
    /\ last.neq /\ ~last.eq

\* C7: raw() returns the stored handle, null for a default-constructed
\* wrapper, raises nothing and changes no state.
C7_State ==
    last.op = "raw" =>
        /\ last.err = NoError
        /\ last.arg = wr[last.w].ptr
        /\ wr[last.w].made = "default" => last.arg = Null
C7_Step ==
    last'.op = "raw" =>
        UNCHANGED <<wr, alloc, ctx, deleterRuns, recycled, crashed>>
C7_RawAccess == []C7_State /\ [][C7_Step]_vars
\* raw() was called on a default-constructed wrapper.
C7_Witness ==
    /\ last.op = "raw" /\ wr[last.w].made = "default"
    /\ last.arg = Null /\ last.err = NoError

\* C8: the borrowing constructor raises for no argument, null included;
\* store_context(null) holds a null handle and equals a default-constructed
\* wrapper; take_ownership(null) raises.
C8_BorrowNull ==
    /\ last.op = "borrow_ctor" =>
         /\ last.err = NoError
         /\ last.w = Len(wr)
         /\ wr[last.w].st = "live"
         /\ wr[last.w].ptr = last.arg
    /\ \A i \in Live, j \in Live :
         (wr[i].made = "borrowing" /\ wr[i].ptr = Null
                                   /\ wr[j].made = "default") =>
             operator_eq(wr[i], wr[j]) /\ ~operator_neq(wr[i], wr[j])
    /\ (last.op = "take_ownership" /\ last.arg = Null) =>
         last.err = Exception
\* store_context(null) was compared equal to a default-constructed wrapper.
C8_Witness ==
    /\ last.op = "compare" /\ last.eq
    /\ wr[last.w].made = "borrowing" /\ wr[last.w].ptr = Null
    /\ wr[last.w].del = "null_deleter"
    /\ wr[last.arg].made = "default"

\* C9: set_trusted_certificates() and cleanup() on a non-null wrapper raise
\* nothing, whether or not the native call had its effect, and leave the
\* wrappers (handle and deleter) unchanged.
C9_State ==
    (last.op \in {"set_trusted_certificates", "cleanup"}
        /\ wr[last.w].ptr # Null) =>
            /\ last.err # Exception
            /\ last.ok => last.err = NoError
C9_Step ==
    last'.op \in {"set_trusted_certificates", "cleanup"} =>
        wr' = wr /\ deleterRuns' = deleterRuns /\ alloc' = alloc
C9_SilentOperations == []C9_State /\ [][C9_Step]_vars
\* The native call did not install the trusted set and nothing was raised.
C9_Witness ==
    /\ last.op = "set_trusted_certificates" /\ last.ok
    /\ last.arg = 0 /\ last.err = NoError
    /\ wr[last.w].ptr # Null

\* C10: take_ownership(p) succeeds on a non-null p whether or not p already
\* has an owner; every independent owner runs the deleter when its last
\* instance is destroyed, so two owners of p run it twice; destroying a
\* wrapper leaves the handle held by every other wrapper in place.
C10_State ==
    /\ (last.op = "take_ownership" /\ last.arg # Null) =>
           last.err = NoError /\ wr[last.w].ptr = last.arg
    /\ \A h \in Handles :
           deleterRuns[h] = Cardinality(ReleasedOwners(h))
C10_Step ==
    \A j \in Slots :
        (wr[j].st = "live" /\ wr'[j].st = "live") => wr'[j] = wr[j]
C10_NoSingleOwnership == []C10_State /\ [][C10_Step]_vars
\* Two independent owners of one handle were destroyed: the deleter ran
\* twice.
C10_Witness ==
    \E h \in Handles :
        /\ deleterRuns[h] = 2
        /\ OwnCount(h) = 2
        /\ LiveOwnersOf(h) = {}

====
